---- MODULE Spec2Model ----
(***************************************************************************)
(* A model of the wikitext syntax tree schema of src/dev/lib/wtast.ts.     *)
(*                                                                         *)
(* The source is a set of TypeScript declarations: seven augmentable       *)
(* interface maps (the content categories), the union types derived from   *)
(* them, and one interface per node kind.  What the source decides is      *)
(* which values the compiler accepts as a node of a given interface, so    *)
(* the model's algorithm is structural assignability: a node conforms to   *)
(* an interface when its `type` matches the declared `type`, the required  *)
(* properties are present, every declared property holds a value of its    *)
(* declared type, and every child is assignable to the declared element    *)
(* type of `children`.  Properties an interface does not declare are not   *)
(* checked, as for any value that is not a fresh object literal.           *)
(*                                                                         *)
(* The only operation on the schema is declaration merging: a module       *)
(* augments one of the interface maps with a property `key: Interface`.    *)
(*                                                                         *)
(* A node is a record [type, children, attrs]: attrs is a function from    *)
(* the names of the properties the node carries to their values.  String   *)
(* properties checked against template literal types (`size`, `kind`) are  *)
(* sequences of one-character strings.  Property values always have the    *)
(* primitive type (string, number, boolean) the schema declares; what      *)
(* varies is presence and value.                                           *)
(***************************************************************************)
EXTENDS Integers, Sequences, FiniteSets, TLC

VARIABLES
    registry,    \* interface map name -> its own declared properties (key -> interface)
    registered,  \* the augmentations merged so far: <<map, key, interface>>
    tree,        \* the node handed to the type check
    verdict      \* "unchecked", "accepted" or "rejected"

vars == <<registry, registered, tree, verdict>>

(***************************************************************************)
(* Bounds of the model.                                                    *)
(***************************************************************************)
MaxRegistrations == 2   \* augmentations merged in one behaviour
MaxDepth == 3           \* height of the nested single-child trees
MaxWidth == 2           \* number of children of the root and gallery trees

(***************************************************************************)
(* Primitives.                                                             *)
(***************************************************************************)
ReferenceType == {"shortcut", "collapsed", "full"}

\* The `type` of an interface that declares no literal: unist's `type: string`.
AnyString == "<string>"

\* `children` of an interface that does not declare children.
NoChildren == "<none>"

NoAttrs == [a \in {} |-> ""]

(***************************************************************************)
(* The interface maps as declared.                                         *)
(***************************************************************************)
BlockContentMapDecl ==
    [paragraph |-> "Paragraph", heading |-> "Heading",
     thematicbreak |-> "ThematicBreak", list |-> "List", table |-> "Table",
     html |-> "HTML", signature |-> "Signature", redirect |-> "Redirect",
     toc |-> "TOC", nowiki |-> "Nowiki", references |-> "References",
     gallery |-> "Gallery", math |-> "Math",
     syntaxHighlighting |-> "SyntaxHighlighting"]

DefinitionContentMapDecl ==
    [definition |-> "Definition", footnoteDefinition |-> "FootnoteDefinition"]

\* A static phrasing map that repeats every dialect kind of the block map.
StaticPhrasingContentMapDecl_AllDialect ==
    [text |-> "Text", emphasis |-> "Emphasis", strong |-> "Strong",
     html |-> "HTML", break |-> "Break", footnote |-> "Footnote",
     footnotereference |-> "FootnoteReference", signature |-> "Signature",
     redirect |-> "Redirect", toc |-> "TOC", nowiki |-> "Nowiki",
     references |-> "References", gallery |-> "Gallery", math |-> "Math",
     syntaxhighlighting |-> "SyntaxHighlighting"]

StaticPhrasingContentMapDecl ==
    [text |-> "Text", emphasis |-> "Emphasis", strong |-> "Strong",
     html |-> "HTML", break |-> "Break", footnote |-> "Footnote",
     footnotereference |-> "FootnoteReference", nowiki |-> "Nowiki",
     references |-> "References", gallery |-> "Gallery", math |-> "Math",
     syntaxhighlighting |-> "SyntaxHighlighting"]

\* The properties PhrasingContentMap declares itself; the inherited ones
\* are added by PhrasingContentMap below.
PhrasingContentMapDecl == [link |-> "Link", linkReference |-> "LinkReference"]

ListContentMapDecl == [listItem |-> "ListItem"]

TableContentMapDecl == [tableRow |-> "TableRow"]

RowContentMapDecl == [tableCell |-> "TableCell"]

Maps ==
    {"BlockContentMap", "DefinitionContentMap", "StaticPhrasingContentMap",
     "PhrasingContentMap", "ListContentMap", "TableContentMap", "RowContentMap"}

Baseline ==
    [BlockContentMap |-> BlockContentMapDecl,
     DefinitionContentMap |-> DefinitionContentMapDecl,
     StaticPhrasingContentMap |-> StaticPhrasingContentMapDecl,
     PhrasingContentMap |-> PhrasingContentMapDecl,
     ListContentMap |-> ListContentMapDecl,
     TableContentMap |-> TableContentMapDecl,
     RowContentMap |-> RowContentMapDecl]

(***************************************************************************)
(* The interface maps in the current state, and the unions over them.      *)
(***************************************************************************)
BlockContentMap == registry["BlockContentMap"]
DefinitionContentMap == registry["DefinitionContentMap"]
StaticPhrasingContentMap == registry["StaticPhrasingContentMap"]
ListContentMap == registry["ListContentMap"]
TableContentMap == registry["TableContentMap"]
RowContentMap == registry["RowContentMap"]

\* An interface that only declares its own properties, without `extends`.
PhrasingContentMap_NoExtends == registry["PhrasingContentMap"]

\* interface PhrasingContentMap extends StaticPhrasingContentMap: the own
\* properties, then the inherited ones (f @@ g keeps f where both are defined).
PhrasingContentMap == registry["PhrasingContentMap"] @@ StaticPhrasingContentMap

\* M[keyof M]: the union of the property types of an interface map.
ValuesOf(m) == {m[k] : k \in DOMAIN m}

BlockContent == ValuesOf(BlockContentMap)
DefinitionContent == ValuesOf(DefinitionContentMap)
ListContent == ValuesOf(ListContentMap)
TableContent == ValuesOf(TableContentMap)
RowContent == ValuesOf(RowContentMap)
PhrasingContent == ValuesOf(PhrasingContentMap)
StaticPhrasingContent == ValuesOf(StaticPhrasingContentMap)
TopLevelContent == BlockContent \cup DefinitionContent

\* A Content that leaves out the top-level and phrasing members.
Content_Nested == ListContent \cup TableContent \cup RowContent

Content ==
    TopLevelContent \cup ListContent \cup TableContent \cup RowContent
        \cup PhrasingContent

\* The interface map seen through its name, inherited properties included.
InterfaceMap(c) ==
    IF c = "PhrasingContentMap" THEN PhrasingContentMap ELSE registry[c]

\* The union type derived from an interface map.
Members(c) == ValuesOf(InterfaceMap(c))

(***************************************************************************)
(* The node interfaces: the declared `type`, the element type of           *)
(* `children`, and the required properties (those declared without `?`,    *)
(* own or inherited from Resource, Association, Reference and Literal).    *)
(***************************************************************************)
Interfaces ==
    [Root |-> [type |-> "root", children |-> "Content", required |-> {}],
     Heading |-> [type |-> "heading", children |-> "PhrasingContent",
                  required |-> {"depth"}],
     ThematicBreak |-> [type |-> "thematicBreak", children |-> NoChildren,
                        required |-> {}],
     ListItem |-> [type |-> "listItem", children |-> "TopLevelContent",
                   required |-> {}],
     Table |-> [type |-> "table", children |-> "TableContent", required |-> {}],
     TableRow |-> [type |-> "tableRow", children |-> "RowContent",
                   required |-> {}],
     TableCell |-> [type |-> "tableCell", children |-> "PhrasingContent",
                    required |-> {}],
     HTML |-> [type |-> "html", children |-> NoChildren, required |-> {"value"}],
     Definition |-> [type |-> "definition", children |-> NoChildren,
                     required |-> {"identifier", "url"}],
     FootnoteDefinition |-> [type |-> "footnoteDefinition",
                             children |-> "TopLevelContent",
                             required |-> {"identifier"}],
     Text |-> [type |-> "text", children |-> NoChildren, required |-> {"value"}],
     Emphasis |-> [type |-> "emphasis", children |-> "PhrasingContent",
                   required |-> {}],
     Strong |-> [type |-> "strong", children |-> "PhrasingContent",
                 required |-> {}],
     Delete |-> [type |-> "delete", children |-> "PhrasingContent",
                 required |-> {}],
     Break |-> [type |-> "break", children |-> NoChildren, required |-> {}],
     Link |-> [type |-> "link", children |-> "StaticPhrasingContent",
               required |-> {"url"}],
     LinkReference |-> [type |-> "linkReference",
                        children |-> "StaticPhrasingContent",
                        required |-> {"identifier", "referenceType"}],
     Footnote |-> [type |-> "footnote", children |-> "PhrasingContent",
                   required |-> {}],
     FootnoteReference |-> [type |-> "footnoteReference",
                            children |-> NoChildren,
                            required |-> {"identifier"}],
     Paragraph |-> [type |-> "paragraph", children |-> "PhrasingContent",
                    required |-> {}],
     List |-> [type |-> "list", children |-> "ListContent", required |-> {}],
     Image |-> [type |-> "image", children |-> NoChildren,
                required |-> {"prefix", "name", "url"}],
     File |-> [type |-> "file", children |-> NoChildren,
               required |-> {"prefix", "name", "url"}],
     Signature |-> [type |-> "signature", children |-> NoChildren,
                    required |-> {"showName", "showTime"}],
     Redirect |-> [type |-> "redirect", children |-> NoChildren,
                   required |-> {"value"}],
     TOC |-> [type |-> "toc", children |-> NoChildren, required |-> {}],
     Nowiki |-> [type |-> AnyString, children |-> NoChildren, required |-> {}],
     References |-> [type |-> "references", children |-> NoChildren,
                     required |-> {}],
     Gallery |-> [type |-> "gallery", children |-> "Image",
                  required |-> {"attributes"}],
     Math |-> [type |-> "math", children |-> NoChildren, required |-> {"value"}],
     SyntaxHighlighting |-> [type |-> "syntaxHighlighting",
                             children |-> NoChildren, required |-> {"value"}],
     \* the kind an augmenting module declares (the `poem: Poem` of the example)
     Poem |-> [type |-> "poem", children |-> "PhrasingContent", required |-> {}]]

InterfaceNames == DOMAIN Interfaces

\* A FootnoteReference that extends Reference instead of Association.
Required_FootnoteIsReference(v) ==
    IF v = "FootnoteReference"
    THEN {"identifier", "referenceType"}
    ELSE Interfaces[v].required

Required(v) == Interfaces[v].required

\* A gallery that takes any media node.
ChildTypes_GalleryMedia(v) ==
    LET c == Interfaces[v].children
    IN  CASE c = "Content" -> Content
          [] c = "TopLevelContent" -> TopLevelContent
          [] c = "PhrasingContent" -> PhrasingContent
          [] c = "StaticPhrasingContent" -> StaticPhrasingContent
          [] c = "ListContent" -> ListContent
          [] c = "TableContent" -> TableContent
          [] c = "RowContent" -> RowContent
          [] c = "Image" -> {"Image", "File"}

\* The interfaces a child may conform to: the members of the element type
\* of `children`.
ChildTypes(v) ==
    LET c == Interfaces[v].children
    IN  CASE c = "Content" -> Content
          [] c = "TopLevelContent" -> TopLevelContent
          [] c = "PhrasingContent" -> PhrasingContent
          [] c = "StaticPhrasingContent" -> StaticPhrasingContent
          [] c = "ListContent" -> ListContent
          [] c = "TableContent" -> TableContent
          [] c = "RowContent" -> RowContent
          [] c = "Image" -> {"Image"}

\* The interface whose declared `type` is the tag; a tag no interface
\* declares is only covered by the interface whose `type` is any string.
InterfaceFor(tag) ==
    IF \E v \in InterfaceNames : Interfaces[v].type = tag
    THEN CHOOSE v \in InterfaceNames : Interfaces[v].type = tag
    ELSE "Nowiki"

(***************************************************************************)
(* Template literal types.  A string is assignable to `${number}` when it  *)
(* is not empty and the unary plus of it is finite: after trimming white   *)
(* space, the empty string, a signed decimal literal with an optional      *)
(* fraction and exponent, or an unsigned hexadecimal, octal or binary      *)
(* literal.  A template is matched left to right, each separator at its    *)
(* first occurrence.                                                       *)
(***************************************************************************)
Digit == {"0", "1", "2", "3", "4", "5", "6", "7", "8", "9"}
HexDigit == Digit \cup {"a", "b", "c", "d", "e", "f", "A", "B", "C", "D", "E", "F"}
WhiteSpace == {" "}

Sub(s, i, j) == IF i > j THEN <<>> ELSE SubSeq(s, i, j)

AllIn(s, S) == \A i \in 1..Len(s) : s[i] \in S

StartsWith(s, p) == Len(s) >= Len(p) /\ Sub(s, 1, Len(p)) = p

EndsWith(s, p) == Len(s) >= Len(p) /\ Sub(s, Len(s) - Len(p) + 1, Len(s)) = p

Trim(s) ==
    LET keep == {i \in 1..Len(s) : s[i] \notin WhiteSpace}
    IN  IF keep = {} THEN <<>>
        ELSE Sub(s, CHOOSE i \in keep : \A j \in keep : i <= j,
                    CHOOSE i \in keep : \A j \in keep : i >= j)

IsDigits(s) == Len(s) > 0 /\ AllIn(s, Digit)

\* digits, digits.digits, digits. or .digits
IsMantissa(s) ==
    \/ IsDigits(s)
    \/ \E i \in 1..Len(s) :
        /\ s[i] = "."
        /\ AllIn(Sub(s, 1, i - 1), Digit)
        /\ AllIn(Sub(s, i + 1, Len(s)), Digit)
        /\ Len(s) > 1

IsExponent(s) ==
    \/ IsDigits(s)
    \/ Len(s) > 1 /\ s[1] \in {"+", "-"} /\ IsDigits(Sub(s, 2, Len(s)))

IsUnsignedDecimal(s) ==
    \/ IsMantissa(s)
    \/ \E i \in 1..Len(s) :
        /\ s[i] \in {"e", "E"}
        /\ IsMantissa(Sub(s, 1, i - 1))
        /\ IsExponent(Sub(s, i + 1, Len(s)))

IsDecimal(s) ==
    \/ IsUnsignedDecimal(s)
    \/ Len(s) > 1 /\ s[1] \in {"+", "-"} /\ IsUnsignedDecimal(Sub(s, 2, Len(s)))

IsRadix(s) ==
    /\ Len(s) > 2
    /\ s[1] = "0"
    /\ \/ s[2] \in {"x", "X"} /\ AllIn(Sub(s, 3, Len(s)), HexDigit)
       \/ s[2] \in {"o", "O"} /\ AllIn(Sub(s, 3, Len(s)), {"0", "1", "2", "3", "4", "5", "6", "7"})
       \/ s[2] \in {"b", "B"} /\ AllIn(Sub(s, 3, Len(s)), {"0", "1"})

\* `${number}`
IsNumber(s) ==
    /\ s # <<>>
    /\ LET t == Trim(s) IN t = <<>> \/ IsDecimal(t) \/ IsRadix(t)

Upright == <<"u", "p", "r", "i", "g", "h", "t">>
Px == <<"p", "x">>
Thumb == <<"t", "h", "u", "m", "b">>
Thumbnail == Thumb \o <<"n", "a", "i", "l">>
Frame == <<"f", "r", "a", "m", "e">>

\* 'upright' | `upright=${number}` | `${number}px` | `x${number}px`
\*   | `${number}x${number}px`
SizeOK(s) ==
    \/ s = Upright
    \/ StartsWith(s, Upright \o <<"=">>) /\ IsNumber(Sub(s, Len(Upright) + 2, Len(s)))
    \/ EndsWith(s, Px) /\ IsNumber(Sub(s, 1, Len(s) - 2))
    \/ /\ Len(s) >= 3
       /\ s[1] = "x"
       /\ EndsWith(s, Px)
       /\ IsNumber(Sub(s, 2, Len(s) - 2))
    \/ /\ EndsWith(s, Px)
       /\ LET body == Sub(s, 1, Len(s) - 2)
              xs == {i \in 1..Len(body) : body[i] = "x"}
          IN  /\ xs # {}
              /\ LET i == CHOOSE i \in xs : \A j \in xs : i <= j
                 IN  /\ IsNumber(Sub(body, 1, i - 1))
                     /\ IsNumber(Sub(body, i + 1, Len(body)))

\* 'thumb' | 'thumbnail' | `thumb=${string}` | `thumbnail=${string}`
\*   | 'frame' | 'framed' | 'frameless'
KindOK(s) ==
    \/ s \in {Thumb, Thumbnail, Frame, Frame \o <<"d">>,
              Frame \o <<"l", "e", "s", "s">>}
    \/ StartsWith(s, Thumb \o <<"=">>)
    \/ StartsWith(s, Thumbnail \o <<"=">>)

Location == {"left", "right", "center", "none"}

Alignment ==
    {"baseline", "sub", "super", "top", "text-top", "middle", "bottom",
     "text-bottom"}

GalleryMode ==
    {"traditional", "nolines", "packed", "packed-overlay", "packed-hover",
     "slideshow"}

\* depth: 0 | 1 | 2 | 3 | 4 | 5 | 6
HeadingDepth_FromZero == 0..6

\* depth: 1 | 2 | 3 | 4 | 5 | 6
HeadingDepth == 1..6

(***************************************************************************)
(* Assignability of a node to an interface and to a union of interfaces.   *)
(***************************************************************************)
RECURSIVE Conforms(_, _)

\* n is assignable to the union of the interfaces in types.
AssignableTo(n, types) == \E w \in types : Conforms(n, w)

\* The value val of property a has the type interface v declares for a.
\* A property v does not declare is not checked.
AttrOK(v, a, val) ==
    CASE v = "Heading" /\ a = "depth" -> val \in HeadingDepth
      [] v = "LinkReference" /\ a = "referenceType" -> val \in ReferenceType
      [] v \in {"Image", "File"} /\ a = "prefix" -> val \in {"File", "Image"}
      [] v \in {"Image", "File"} /\ a = "kind" -> KindOK(val)
      [] v \in {"Image", "File"} /\ a = "location" -> val \in Location
      [] v \in {"Image", "File"} /\ a = "aligntment" -> val \in Alignment
      [] v \in {"Image", "File"} /\ a = "size" -> SizeOK(val)
      [] v \in {"Image", "File"} /\ a = "link" -> Conforms(val, "Link")
      [] v \in {"Image", "File"} /\ a = "caption" ->
            AssignableTo(val, PhrasingContent)
      [] v = "File" /\ a = "thumbtime" -> val = "Time"
      [] v = "Redirect" /\ a = "value" -> Conforms(val, "Link")
      [] v = "Gallery" /\ a = "attributes" ->
            /\ "mode" \in DOMAIN val => val["mode"] \in GalleryMode
            /\ "showfilename" \in DOMAIN val => val["showfilename"] = "yes"
      [] OTHER -> TRUE

\* n is assignable to interface v.
Conforms(n, v) ==
    /\ Interfaces[v].type \in {AnyString, n.type}
    /\ Required(v) \subseteq DOMAIN n.attrs
    /\ \A a \in DOMAIN n.attrs : AttrOK(v, a, n.attrs[a])
    /\ Interfaces[v].children # NoChildren =>
          \A i \in 1..Len(n.children) : AssignableTo(n.children[i], ChildTypes(v))

\* The positions of the children of n that are not assignable to the
\* element type of v's children: where the compiler reports the error.
Flagged(n, v) ==
    IF Interfaces[v].children = NoChildren THEN {}
    ELSE {i \in 1..Len(n.children) : ~AssignableTo(n.children[i], ChildTypes(v))}

\* Every value of interface v is a value of interface w.
InterfaceAssignable(v, w) ==
    \/ v = w
    \/ /\ Interfaces[w].type = AnyString
       /\ Interfaces[w].required = {}
       /\ Interfaces[w].children = NoChildren

(***************************************************************************)
(* Declaration merging.  `interface c { k: v }` is merged into map c.  The *)
(* compiler rejects the program when c already declares k with another     *)
(* type, and when PhrasingContentMap would no longer extend                *)
(* StaticPhrasingContentMap (a property of the derived interface must be   *)
(* assignable to the inherited property of the same name).                 *)
(***************************************************************************)
Mergeable(c, k, v) ==
    /\ k \in DOMAIN registry[c] => registry[c][k] = v
    /\ (c = "PhrasingContentMap" /\ k \in DOMAIN StaticPhrasingContentMap) =>
          InterfaceAssignable(v, StaticPhrasingContentMap[k])
    /\ (c = "StaticPhrasingContentMap" /\ k \in DOMAIN registry["PhrasingContentMap"]) =>
          InterfaceAssignable(registry["PhrasingContentMap"][k], v)

Register(c, k, v) ==
    /\ Cardinality(registered) < MaxRegistrations
    /\ <<c, k, v>> \notin registered
    /\ Mergeable(c, k, v)
    /\ registry' = [registry EXCEPT ![c] = (k :> v) @@ registry[c]]
    /\ registered' = registered \cup {<<c, k, v>>}
    /\ verdict' = "unchecked"
    /\ UNCHANGED tree

\* The program is compiled: the node is checked against the interface of
\* its tag.
TypeCheck ==
    /\ verdict = "unchecked"
    /\ verdict' = IF Conforms(tree, InterfaceFor(tree.type))
                  THEN "accepted" ELSE "rejected"
    /\ UNCHANGED <<registry, registered, tree>>

(***************************************************************************)
(* The inputs: the nodes handed to the type check and the augmentations    *)
(* merged into the maps.                                                   *)
(***************************************************************************)
\* The properties a well-formed node of a kind carries: the required ones.
DefaultAttrs(t) ==
    CASE t = "heading" -> [depth |-> 2]
      [] t \in {"html", "text", "math", "syntaxHighlighting"} -> [value |-> "v"]
      [] t = "definition" -> [identifier |-> "id", url |-> "u"]
      [] t \in {"footnoteDefinition", "footnoteReference"} -> [identifier |-> "id"]
      [] t = "link" -> [url |-> "u"]
      [] t = "linkReference" -> [identifier |-> "id", referenceType |-> "full"]
      [] t \in {"image", "file"} -> [prefix |-> "File", name |-> "n", url |-> "u"]
      [] t = "signature" -> [showName |-> TRUE, showTime |-> FALSE]
      [] t = "gallery" -> [attributes |-> [mode |-> "packed"]]
      [] OTHER -> NoAttrs

Node(t, ch) == [type |-> t, children |-> ch, attrs |-> DefaultAttrs(t)]

Leaf(t) == Node(t, <<>>)

With(n, a, val) ==
    [n EXCEPT !.attrs = [x \in DOMAIN n.attrs \cup {a} |->
                            IF x = a THEN val ELSE n.attrs[x]]]

Without(n, a) ==
    [n EXCEPT !.attrs = [x \in DOMAIN n.attrs \ {a} |-> n.attrs[x]]]

SeqsUpTo(S, n) == UNION {[1..m -> S] : m \in 1..n}

\* Nested trees, one child per node.
ChainKinds == {"link", "linkReference", "emphasis"}

RECURSIVE Chains(_)
Chains(d) ==
    IF d <= 1 THEN {Leaf(k) : k \in ChainKinds}
    ELSE LET smaller == Chains(d - 1)
         IN  smaller \cup {Node(k, <<c>>) : k \in ChainKinds, c \in smaller}

\* Every parent kind over every kind of child.
ParentKinds ==
    {"root", "heading", "listItem", "table", "tableRow", "tableCell",
     "footnoteDefinition", "list", "gallery", "poem"}

ChildKinds ==
    {"paragraph", "list", "listItem", "tableRow", "tableCell", "text", "link",
     "definition", "image", "file", "nowiki", "poem"}

Pairs == {Node(p, <<Leaf(k)>>) : p \in ParentKinds, k \in ChildKinds}

\* Roots and galleries over several children.
RootChildKinds == {"paragraph", "listItem", "tableRow", "tableCell", "text", "link"}

GalleryChildKinds == {"image", "file", "text"}

Wide ==
    {Node("root", [i \in DOMAIN s |-> Leaf(s[i])]) : s \in SeqsUpTo(RootChildKinds, MaxWidth)}
    \cup {Node("gallery", [i \in DOMAIN s |-> Leaf(s[i])]) :
            s \in SeqsUpTo(GalleryChildKinds, MaxWidth)}

\* Headings of every depth tried, and one without a depth.
DepthMargin == 2

DepthTried == (1 - DepthMargin)..(6 + DepthMargin)

HeadingNodes ==
    {With(Leaf("heading"), "depth", d) : d \in DepthTried}
    \cup {Without(Leaf("heading"), "depth")}

\* References with and without an identifier and a referenceType.
ReferenceTypeTried == ReferenceType \cup {"inline", ""}

ReferenceNodes ==
    LET bare(t) == [type |-> t, children |-> <<>>, attrs |-> NoAttrs]
        ident(t) == With(bare(t), "identifier", "id")
    IN  UNION {{bare(t), ident(t)}
               \cup {With(bare(t), "referenceType", r) : r \in ReferenceTypeTried}
               \cup {With(ident(t), "referenceType", r) : r \in ReferenceTypeTried} :
               t \in {"linkReference", "footnoteReference"}}

\* Images and files with one of the enumerated properties set.
SizeTried ==
    {<<"u", "p", "r", "i", "g", "h", "t">>,
     <<"u", "p", "r", "i", "g", "h", "t", "=", "0", ".", "6">>,
     <<"u", "p", "r", "i", "g", "h", "t", "=">>,
     <<"u", "p", "r", "i", "g", "h", "t", "=", "b", "i", "g">>,
     <<"1", "0", "p", "x">>,
     <<"x", "2", "0", "p", "x">>,
     <<"1", "0", "x", "2", "0", "p", "x">>,
     <<"w", "i", "d", "e">>,
     <<"p", "x">>,
     <<"x", "p", "x">>,
     <<"1", "0">>,
     <<"1", "0", "x", "p", "x">>,
     <<"-", "5", "p", "x">>,
     <<"1", "e", "3", "p", "x">>,
     <<"0", "x", "1", "f", "p", "x">>,
     <<"1", ".", "5", ".", "2", "p", "x">>,
     <<"1", "0", " ", "p", "x">>,
     <<"1", "0", "p", "t">>}

KindTried ==
    {<<"t", "h", "u", "m", "b">>,
     <<"t", "h", "u", "m", "b", "n", "a", "i", "l">>,
     <<"t", "h", "u", "m", "b", "=", "a", ".", "p", "n", "g">>,
     <<"t", "h", "u", "m", "b", "n", "a", "i", "l", "=", "b">>,
     <<"t", "h", "u", "m", "b", "=">>,
     <<"f", "r", "a", "m", "e">>,
     <<"f", "r", "a", "m", "e", "d">>,
     <<"f", "r", "a", "m", "e", "l", "e", "s", "s">>,
     <<"t", "h", "u", "m", "b", "s">>,
     <<"b", "o", "r", "d", "e", "r">>,
     <<>>}

LocationTried == Location \cup {"centre", "top", ""}

AlignmentTried == Alignment \cup {"center", "diagonal", ""}

MediaNodes ==
    UNION {{With(Leaf(t), "size", x) : x \in SizeTried}
           \cup {With(Leaf(t), "kind", x) : x \in KindTried}
           \cup {With(Leaf(t), "location", x) : x \in LocationTried}
           \cup {With(Leaf(t), "alignment", x) : x \in AlignmentTried}
           \cup {With(Leaf(t), "aligntment", x) : x \in AlignmentTried}
           \cup {With(Leaf(t), "prefix", x) : x \in {"Image", "Media"}} :
           t \in {"image", "file"}}

Trees == Chains(MaxDepth) \cup Pairs \cup Wide \cup HeadingNodes
            \cup ReferenceNodes \cup MediaNodes

\* The augmentations tried: a new kind under its own tag in each map, an
\* existing kind in a map that lacks it, a declaration repeated, and a new
\* kind under a key that is taken, in the map that declares the key and in
\* the map that inherits it.
Augmentations ==
    {<<c, "poem", "Poem">> : c \in Maps}
    \cup {<<"StaticPhrasingContentMap", "link", "Link">>,
          <<"PhrasingContentMap", "link", "Link">>,
          <<"BlockContentMap", "html", "Poem">>,
          <<"PhrasingContentMap", "html", "Poem">>,
          <<"PhrasingContentMap", "nowiki", "Poem">>}

(***************************************************************************)
(* The specification.                                                      *)
(***************************************************************************)
Init ==
    /\ registry = Baseline
    /\ registered = {}
    /\ tree \in Trees
    /\ verdict = "unchecked"

Next ==
    \/ \E a \in Augmentations : Register(a[1], a[2], a[3])
    \/ TypeCheck

Spec == Init /\ [][Next]_vars

TypeInv ==
    /\ DOMAIN registry = Maps
    /\ registered \subseteq Augmentations
    /\ verdict \in {"unchecked", "accepted", "rejected"}

(***************************************************************************)
(* Helpers of the properties.                                              *)
(***************************************************************************)
Checked == verdict # "unchecked"

Accepted == verdict = "accepted"

LinkKinds == {"link", "linkReference"}

RECURSIVE ContainsLink(_)
ContainsLink(n) ==
    \/ n.type \in LinkKinds
    \/ \E i \in 1..Len(n.children) : ContainsLink(n.children[i])

\* Some link or linkReference of n has a link or linkReference below it.
RECURSIVE LinkInsideLink(_)
LinkInsideLink(n) ==
    \/ n.type \in LinkKinds /\ \E i \in 1..Len(n.children) : ContainsLink(n.children[i])
    \/ \E i \in 1..Len(n.children) : LinkInsideLink(n.children[i])

ChildTags(n) == {n.children[i].type : i \in 1..Len(n.children)}

\* The own keys of a map as declared, inherited ones included.
BaselineKeys(c) ==
    IF c = "PhrasingContentMap"
    THEN DOMAIN PhrasingContentMapDecl \cup DOMAIN StaticPhrasingContentMapDecl
    ELSE DOMAIN Baseline[c]

RegisteredInto(c) == {a[3] : a \in {b \in registered : b[1] = c}}

(***************************************************************************)
(* C1.  In every tree the schema accepts, no link or linkReference node    *)
(* occurs inside (as a child or deeper descendant of) a link or            *)
(* linkReference node.                                                     *)
(***************************************************************************)
C1_NoLinkInsideLink == Accepted => ~LinkInsideLink(tree)

(***************************************************************************)
(* C2.  Extension is monotonic: across every registration each category    *)
(* keeps its kinds (keys), the baseline kinds among them, and a tree that  *)
(* conformed before the registration conforms after it.                    *)
(***************************************************************************)
C2_Monotonic ==
    [][/\ \A c \in Maps :
            /\ DOMAIN InterfaceMap(c) \subseteq (DOMAIN InterfaceMap(c))'
            /\ BaselineKeys(c) \subseteq (DOMAIN InterfaceMap(c))'
       /\ Conforms(tree, InterfaceFor(tree.type)) =>
            Conforms(tree, InterfaceFor(tree.type))']_vars

(***************************************************************************)
(* C3.  A gallery's children are restricted to image nodes: a gallery is   *)
(* accepted exactly when all its children are image nodes, and the         *)
(* children flagged are exactly those that are not image nodes (a file     *)
(* child among them).                                                      *)
(***************************************************************************)
C3_GalleryOnlyImages ==
    (tree.type = "gallery" /\ Checked) =>
        /\ Accepted <=> ChildTags(tree) \subseteq {"image"}
        /\ Flagged(tree, "Gallery") =
              {i \in 1..Len(tree.children) : tree.children[i].type # "image"}

C3_Witness ==
    /\ tree = Node("gallery", <<Leaf("image"), Leaf("file")>>)
    /\ verdict = "rejected"
    /\ Flagged(tree, "Gallery") = {2}

(***************************************************************************)
(* C4.  As claimed: static phrasing content holds the same dialect         *)
(* extension kinds as block content, so every dialect extension kind of    *)
(* block content (signature, redirect, toc, nowiki, references, gallery,   *)
(* math, syntaxHighlighting) is also a member of static phrasing content.  *)
(***************************************************************************)
DialectExtensions ==
    {"Signature", "Redirect", "TOC", "Nowiki", "References", "Gallery", "Math",
     "SyntaxHighlighting"}

CustomHtmlTags == {"Nowiki", "References", "Gallery", "Math", "SyntaxHighlighting"}

C4_SameDialectExtensions ==
    /\ DialectExtensions \subseteq BlockContent
    /\ \A v \in DialectExtensions : v \in BlockContent => v \in StaticPhrasingContent

(***************************************************************************)
(* C4, amended.  Static phrasing content as declared consists of text,     *)
(* emphasis, strong, html, break, footnote, footnoteReference and the      *)
(* custom HTML tag kinds of block content (nowiki, references, gallery,    *)
(* math, syntaxHighlighting); these stay members under registration.       *)
(* Signature, redirect and toc are members of block content and not of     *)
(* static phrasing content.                                                *)
(***************************************************************************)
C4_CustomHtmlTagsShared ==
    /\ RegisteredInto("StaticPhrasingContentMap") = {} =>
          StaticPhrasingContent =
              {"Text", "Emphasis", "Strong", "HTML", "Break", "Footnote",
               "FootnoteReference"} \cup CustomHtmlTags
    /\ CustomHtmlTags \subseteq BlockContent \cap StaticPhrasingContent
    /\ {"Signature", "Redirect", "TOC"} \subseteq
          BlockContent \ (StaticPhrasingContent \ RegisteredInto("StaticPhrasingContentMap"))

C4_Witness ==
    /\ <<"BlockContentMap", "poem", "Poem">> \in registered
    /\ RegisteredInto("StaticPhrasingContentMap") = {}
    /\ "Signature" \in BlockContent \ StaticPhrasingContent
    /\ "Math" \in BlockContent \cap StaticPhrasingContent

(***************************************************************************)
(* C5.  Phrasing content is derived from static phrasing content: the      *)
(* kinds (keys) of phrasing content are exactly those of static phrasing   *)
(* content, link, linkReference and the ones registered into phrasing      *)
(* content.  A kind registered into static phrasing content is a member of *)
(* phrasing content; a kind registered only into phrasing content is not a *)
(* member of static phrasing content.                                      *)
(***************************************************************************)
KeysRegisteredInto(c) == {a[2] : a \in {b \in registered : b[1] = c}}

HasReferenceBundle(n) ==
    /\ "identifier" \in DOMAIN n.attrs
    /\ "referenceType" \in DOMAIN n.attrs
    /\ n.attrs["referenceType"] \in {"shortcut", "collapsed", "full"}

C6_BothAreReferences ==
    (tree.type \in {"linkReference", "footnoteReference"} /\ Accepted) =>
        HasReferenceBundle(tree)

(***************************************************************************)
(* C6, amended.  A linkReference is a reference-bundle node: it is         *)
(* accepted only with an identifier and a referenceType among shortcut,    *)
(* collapsed, full.  A footnoteReference is an association node: it is     *)
(* accepted exactly when it carries an identifier, with or without a       *)
(* referenceType and whatever its value.                                   *)
(***************************************************************************)
C6_OnlyLinkReferenceIsReference ==
    /\ (tree.type = "linkReference" /\ Checked) =>
          (Accepted <=> HasReferenceBundle(tree) /\ Flagged(tree, "LinkReference") = {})
    /\ (tree.type = "footnoteReference" /\ Checked) =>
          (Accepted <=> "identifier" \in DOMAIN tree.attrs)

C6_Witness ==
    /\ tree = [type |-> "footnoteReference", children |-> <<>>,
               attrs |-> [identifier |-> "id"]]
    /\ Accepted

(***************************************************************************)
(* C7.  A heading is accepted only with a depth from 1 to 6: each of 1, 2, *)
(* 3, 4, 5, 6 is accepted and 0, 7 and every other integer is rejected.    *)
(***************************************************************************)
C7_HeadingDepth ==
    (tree.type = "heading" /\ Checked) =>
        (Accepted <=>
            /\ "depth" \in DOMAIN tree.attrs
            /\ tree.attrs["depth"] \in {1, 2, 3, 4, 5, 6}
            /\ Flagged(tree, "Heading") = {})

C7_Witness ==
    /\ tree.type = "heading"
    /\ "depth" \in DOMAIN tree.attrs
    /\ \/ tree.attrs["depth"] = 0 /\ verdict = "rejected"
       \/ tree.attrs["depth"] = 7 /\ verdict = "rejected"

(***************************************************************************)
(* C8.  For image and file nodes each of kind, location, alignment and     *)
(* size accepts only its declared literals and patterns: an accepted node  *)
(* that carries one of them carries a declared value.                      *)
(***************************************************************************)
C8_EnumeratedAttributes ==
    (tree.type \in {"image", "file"} /\ Accepted) =>
        /\ "kind" \in DOMAIN tree.attrs => KindOK(tree.attrs["kind"])
        /\ "size" \in DOMAIN tree.attrs => SizeOK(tree.attrs["size"])
        /\ "location" \in DOMAIN tree.attrs =>
              tree.attrs["location"] \in {"left", "right", "center", "none"}
        /\ "alignment" \in DOMAIN tree.attrs =>
              tree.attrs["alignment"] \in
                  {"baseline", "sub", "super", "top", "text-top", "middle",
                   "bottom", "text-bottom"}

(***************************************************************************)
(* C9.  Every entry of every content category map is registered under the  *)
(* key equal to the literal `type` its interface declares.                 *)
(***************************************************************************)
C9_KeyIsTag ==
    \A c \in Maps : \A k \in DOMAIN InterfaceMap(c) :
        Interfaces[InterfaceMap(c)[k]].type = k

(***************************************************************************)
(* C10.  As claimed: a listItem, tableRow, tableCell, text or link placed  *)
(* directly under root makes the tree invalid.                             *)
(***************************************************************************)
C10_RootOnlyTopLevel ==
    (tree.type = "root" /\ Checked
        /\ ChildTags(tree) \cap {"listItem", "tableRow", "tableCell", "text", "link"} # {})
      => verdict = "rejected"

(***************************************************************************)
(* C10, amended.  A root's children are typed as general content (block,   *)
(* definition, list, table, row or phrasing content): a root whose         *)
(* children are well-formed paragraph, listItem, tableRow, tableCell, text *)
(* or link nodes is accepted, so listItem, tableRow and tableCell are not  *)
(* confined to list, table and tableRow.                                   *)
(***************************************************************************)
C10_RootTakesAnyContent ==
    (/\ tree.type = "root"
     /\ Checked
     /\ \A i \in 1..Len(tree.children) :
            /\ tree.children[i].type \in RootChildKinds
            /\ tree.children[i] = Leaf(tree.children[i].type))
      => Accepted

C10_Witness ==
    /\ tree = Node("root", <<Leaf("listItem"), Leaf("text")>>)
    /\ Accepted

====
